---------------------------- MODULE Spec2Model ----------------------------
(* A model of the SaDi dependency-injection container (src/src/sadi.rs).  *)
(* The container holds two provider maps keyed by type identity, one per  *)
(* scope, and a cache of singleton instances.  A resolution runs the      *)
(* registered factory, which receives the container and may resolve       *)
(* further identities before it returns its value; the call path of a     *)
(* resolution is a stack of frames.                                       *)
EXTENDS Integers, Sequences, FiniteSets, TLC

(* Type identities (TypeId::of::<T>()) that are registered and resolved.  *)
Types == {"A", "B"}

(* The closures handed to the registration operations.                    *)
Closures == {"f"}

(* Execution contexts that may call into one container.                   *)
Ctx == {1, 2}

(* Longest call path (nested resolutions) that is explored.               *)
MaxDepth == 3

(* Resolutions (top-level and nested) entered in one container's life.    *)
MaxRes == 3

Scopes == {"transient", "singleton"}

VARIABLES
    di,               \* "live": a container value exists; "none": it was consumed
    factories,        \* SaDi.factories: TypeId -> transient factory
    singletons,       \* SaDi.singletons: TypeId -> singleton factory
    singleton_cache,  \* SaDi.singleton_cache: TypeId -> Rc<dyn Any>
    stack,            \* per execution context, the call path of its resolution
    calls,            \* invocation counter of each registered factory
    nres,             \* resolutions entered on this container
    found,            \* resolutions that found their provider, per scope and identity
    built,            \* factory invocations that returned a value, per scope and identity
    okcnt,            \* resolutions that returned Ok, per scope and identity
    returned,         \* the instances handed out by Ok results, per scope and identity
    ret,              \* per context, the outcome of its last top-level resolution
    reg,              \* the outcome of the last registration
    nreg,             \* registrations that succeeded on this container
    error             \* the last Error built by a helper of sadi/src/error.rs

vars == <<di, factories, singletons, singleton_cache, stack, calls,
          nres, found, built, okcnt, returned, ret, reg, nreg, error>>

hist == <<calls, nres, found, built, okcnt, returned>>

-----------------------------------------------------------------------------
(* Values *)

EmptyMap == [x \in {} |-> 0]

(* An instance is the value one factory invocation produced: the type it  *)
(* was built as, the scope of the factory, and the ordinal of the         *)
(* invocation (a factory with an incrementing counter).                   *)
Instance(t, s, n) == [ty |-> t, scope |-> s, n |-> n]

NoInstance == [ty |-> "", scope |-> "", n |-> 0]

Outcome(tag, val, msg) == [tag |-> tag, val |-> val, msg |-> msg]

Ok(val) == Outcome("Ok", val, <<>>)

Err(msg) == Outcome("Err", NoInstance, msg)

Panic(msg) == Outcome("Panic", NoInstance, msg)

Nothing == Outcome("None", NoInstance, <<>>)

(* std::any::type_name::<T>() *)
type_name(t) == t

(* A message that leaves out the requested type.                          *)
NotRegisteredAnon(service_type, t) == <<"No ", service_type, " factory registered">>

(* format!("No {} factory registered for type: {}", ..) of try_get and    *)
(* try_get_singleton: the literal pieces and the formatted arguments.     *)
NotRegisteredMsg(service_type, t) ==
    <<"No ", service_type, " factory registered for type: ", type_name(t)>>

(* format!("Factory returned wrong type for: {}", ..) *)
WrongTypeMsg(t) == <<"Factory returned wrong type for: ", type_name(t)>>

(* format!("Cached instance has wrong type for: {}", ..) *)
CachedWrongTypeMsg(t) == <<"Cached instance has wrong type for: ", type_name(t)>>

(* SaDiError::factory_already_registered(type_name, service_type) *)
factory_already_registered(t, service_type) ==
    [kind |-> "FactoryAlreadyRegistered",
     message |-> <<service_type, " factory already registered for type: ", type_name(t)>>]

(* HashMap::contains_key, HashMap::get, HashMap::insert *)
contains_key(map, k) == k \in DOMAIN map

(* A map that keeps only the entry inserted last.                         *)
insert_last_only(map, k, v) == [x \in {k} |-> v]

insert(map, k, v) == [x \in (DOMAIN map) \cup {k} |-> IF x = k THEN v ELSE map[x]]

(* Box<dyn Any>::downcast::<T>() / Rc<dyn Any>::downcast::<T>() *)
downcast(inst, t) == inst.ty = t


-----------------------------------------------------------------------------
(* The container value and the registration operations *)

(* The SaDi value the caller owns. *)
Self == [di |-> di, factories |-> factories, singletons |-> singletons,
         singleton_cache |-> singleton_cache]

(* No container: the value was moved into a call that did not return it.  *)
NoContainer == [di |-> "none", factories |-> EmptyMap, singletons |-> EmptyMap,
                singleton_cache |-> EmptyMap]

(* SaDi::new() *)
new == [di |-> "live", factories |-> EmptyMap, singletons |-> EmptyMap,
        singleton_cache |-> EmptyMap]

NoError == [kind |-> "", message |-> <<>>]

(* Result<Self, SaDiError>: Ok(self) carries the container back, Err(e)   *)
(* carries only the error (self was taken by value and is dropped).       *)
RegOk(self) == [tag |-> "Ok", self |-> self, err |-> NoError]

RegErr(e) == [tag |-> "Err", self |-> NoContainer, err |-> e]

(* unwrap_or_else(|err| panic!("{}", err)) on a registration result *)
RegPanic(e) == [tag |-> "Panic", self |-> NoContainer, err |-> e]

(* A rejected registration that still hands the container back.          *)
try_factory_keeping(self, t, f) ==
    IF contains_key(self.factories, t)
    THEN [tag |-> "Err", self |-> self, err |-> factory_already_registered(t, "transient")]
    ELSE RegOk([self EXCEPT !.factories = insert(self.factories, t, f)])

(* A registration that replaces the provider of an identity that has one. *)
try_factory_overwriting(self, t, f) ==
    RegOk([self EXCEPT !.factories = insert(self.factories, t, f)])

(* SaDi::try_factory(mut self, factory) *)
try_factory(self, t, f) ==
    IF contains_key(self.factories, t)
    THEN RegErr(factory_already_registered(t, "transient"))
    ELSE RegOk([self EXCEPT !.factories = insert(self.factories, t, f)])

(* A registration that does not look for an existing entry.               *)
try_factory_singleton_unchecked(self, t, f) ==
    RegOk([self EXCEPT !.singletons = insert(self.singletons, t, f)])

(* A registration that builds the instance and caches it at once.        *)
try_factory_singleton_eager(self, t, f) ==
    IF contains_key(self.singletons, t)
    THEN RegErr(factory_already_registered(t, "singleton"))
    ELSE RegOk([self EXCEPT !.singletons = insert(self.singletons, t, f),
                            !.singleton_cache =
                                insert(self.singleton_cache, t, Instance(t, "singleton", 1))])

(* SaDi::try_factory_singleton(mut self, factory) *)
try_factory_singleton(self, t, f) ==
    IF contains_key(self.singletons, t)
    THEN RegErr(factory_already_registered(t, "singleton"))
    ELSE RegOk([self EXCEPT !.singletons = insert(self.singletons, t, f)])

(* A registration that keeps the container when the provider exists.     *)
factory_singleton_lenient(self, t, f) ==
    IF contains_key(self.singletons, t)
    THEN RegOk(self)
    ELSE RegOk([self EXCEPT !.singletons = insert(self.singletons, t, f)])

(* SaDi::factory / SaDi::factory_singleton: the try_ result, unwrapped.   *)
unwrap_or_panic(r) == IF r.tag = "Err" THEN RegPanic(r.err) ELSE r

factory(self, t, f) == unwrap_or_panic(try_factory(self, t, f))

factory_singleton(self, t, f) == unwrap_or_panic(try_factory_singleton(self, t, f))

(* What SaDi::new() hands the caller: a container and no error. *)
NoReg == [tag |-> "Ok", err |-> NoError]

Idle == \A c \in Ctx : stack[c] = <<>>

ZeroHist == [s \in Scopes |-> [t \in Types |-> 0]]

NoneReturned == [s \in Scopes |-> [t \in Types |-> {}]]

NoRet == [ty |-> "", scope |-> "", out |-> Nothing]

(* The caller's binding after a registration call returned r. *)
Registered(r) ==
    /\ di' = r.self.di
    /\ factories' = r.self.factories
    /\ singletons' = r.self.singletons
    /\ singleton_cache' = r.self.singleton_cache
    /\ reg' = [tag |-> r.tag, err |-> r.err]
    /\ nreg' = IF r.tag = "Ok" THEN nreg + 1 ELSE nreg
    /\ UNCHANGED <<stack, hist, ret, error>>

(* Registration takes the container by value: no resolution borrows it.   *)
CanRegister == di = "live" /\ Idle

New ==
    /\ Idle
    /\ di' = new.di
    /\ factories' = new.factories
    /\ singletons' = new.singletons
    /\ singleton_cache' = new.singleton_cache
    /\ calls' = ZeroHist
    /\ nres' = 0
    /\ found' = ZeroHist
    /\ built' = ZeroHist
    /\ okcnt' = ZeroHist
    /\ returned' = NoneReturned
    /\ ret' = [c \in Ctx |-> NoRet]
    /\ reg' = NoReg
    /\ nreg' = 0
    /\ UNCHANGED <<stack, error>>

TryFactory(t, f) == CanRegister /\ Registered(try_factory(Self, t, f))

Factory(t, f) == CanRegister /\ Registered(factory(Self, t, f))

TryFactorySingleton(t, f) ==
    CanRegister /\ Registered(try_factory_singleton(Self, t, f))

FactorySingleton(t, f) ==
    CanRegister /\ Registered(factory_singleton(Self, t, f))

-----------------------------------------------------------------------------
(* Resolution: the call path and the steps of try_get / try_get_singleton *)

(* One activation of try_get::<T> or try_get_singleton::<T>:              *)
(*   ty        the requested identity (TypeId::of::<T>())                 *)
(*   scope     "transient" for try_get, "singleton" for try_get_singleton *)
(*   panicking entered through get / get_singleton (the result is unwrapped) *)
(*   pc        "check", "lookup", "factory" (the factory is running) or   *)
(*             "insert" (the factory returned, the value is not cached yet) *)
(*   made      the ordinal of the factory invocation this activation made *)
(*   nerr      the first error a resolution nested in the factory gave it *)
(*   borrow    the borrow of singleton_cache the activation holds: "none", *)
(*             "ref" (RefCell::borrow) or "mut" (RefCell::borrow_mut)     *)
Frame(t, s, p) ==
    [ty |-> t, scope |-> s, panicking |-> p,
     pc |-> IF s = "singleton" THEN "check" ELSE "lookup",
     made |-> 0, nerr |-> <<>>, borrow |-> "none"]

Top(c) == stack[c][Len(stack[c])]

Rest(c) == SubSeq(stack[c], 1, Len(stack[c]) - 1)

Bump(h, s, t) == [h EXCEPT ![s][t] = @ + 1]

(* A resolution is entered by the application (empty call path) or by the *)
(* factory that is running at the top of the call path.                   *)
CanEnter(c, t, s) ==
    /\ di = "live"
    /\ nres < MaxRes
    /\ \/ stack[c] = <<>>
       \/ /\ stack[c] # <<>>
          /\ Len(stack[c]) < MaxDepth
          /\ Top(c).pc = "factory"

Enter(c, t, s, p) ==
    /\ CanEnter(c, t, s)
    /\ stack' = [stack EXCEPT ![c] = Append(@, Frame(t, s, p))]
    /\ nres' = nres + 1
    /\ UNCHANGED <<error, di, factories, singletons, singleton_cache, calls,
                   found, built, okcnt, returned, ret, reg, nreg>>

TryGet(c, t) == Enter(c, t, "transient", FALSE)

Get(c, t) == Enter(c, t, "transient", TRUE)

TryGetSingleton(c, t) == Enter(c, t, "singleton", FALSE)

GetSingleton(c, t) == Enter(c, t, "singleton", TRUE)

(* A panic unwinds the whole call path of the context; the application    *)
(* observes it as the outcome of its top-level call.                      *)
Unwind(c, out) ==
    /\ stack' = [stack EXCEPT ![c] = <<>>]
    /\ ret' = [ret EXCEPT ![c] = [ty |-> stack[c][1].ty, scope |-> stack[c][1].scope,
                                  out |-> out]]
    /\ UNCHANGED <<okcnt, returned>>

(* The activation at the top of the call path ends with Result out.       *)
(* get / get_singleton unwrap it (an Err becomes a panic); otherwise the  *)
(* result goes to the caller: the application, or the factory below.      *)
Finish(c, out) ==
    LET fr == Top(c) IN
    IF out.tag = "Err" /\ fr.panicking
    THEN Unwind(c, Panic(out.msg))
    ELSE /\ IF Len(stack[c]) = 1
            THEN /\ stack' = [stack EXCEPT ![c] = <<>>]
                 /\ ret' = [ret EXCEPT ![c] = [ty |-> fr.ty, scope |-> fr.scope,
                                               out |-> out]]
            ELSE /\ stack' = [stack EXCEPT ![c] =
                        [Rest(c) EXCEPT ![Len(stack[c]) - 1].nerr =
                            IF out.tag = "Err" /\ @ = <<>> THEN out.msg ELSE @]]
                 /\ UNCHANGED ret
         /\ IF out.tag = "Ok"
            THEN /\ okcnt' = Bump(okcnt, fr.scope, fr.ty)
                 /\ returned' = [returned EXCEPT ![fr.scope][fr.ty] = @ \cup {out.val}]
            ELSE UNCHANGED <<okcnt, returned>>

SetTop(c, fr) == stack' = [stack EXCEPT ![c][Len(stack[c])] = fr]

(* A position that is taken only while no other context is constructing. *)
AtPcExclusive(c, s, pc) ==
    /\ stack[c] # <<>>
    /\ Top(c).scope = s
    /\ Top(c).pc = pc
    /\ \A d \in Ctx \ {c} : \A i \in 1..Len(stack[d]) :
           stack[d][i].pc \notin {"factory", "insert"}

AtPc(c, s, pc) ==
    /\ stack[c] # <<>>
    /\ Top(c).scope = s
    /\ Top(c).pc = pc

(* try_get_singleton, "Check cache first": the cached Rc, downcast.       *)
cache_get(cache, t) ==
    IF contains_key(cache, t)
    THEN IF downcast(cache[t], t) THEN Ok(cache[t]) ELSE Err(CachedWrongTypeMsg(t))
    ELSE Nothing

(* The state of the RefCell around singleton_cache: some activation of    *)
(* some context holds a borrow of one of the kinds.                       *)
Borrowed(kinds) ==
    \E d \in Ctx : \E i \in 1..Len(stack[d]) : stack[d][i].borrow \in kinds

(* The panic messages of RefCell::borrow and RefCell::borrow_mut. *)
BorrowError == <<"already mutably borrowed: BorrowError">>

BorrowMutError == <<"already borrowed: BorrowMutError">>

(* A cache check whose Ref lives on to the end of the function.           *)
check_missed_holding(fr) == [fr EXCEPT !.pc = "lookup", !.borrow = "ref"]

(* The cache check found nothing: the block around `let cache = ..` ends  *)
(* and drops the Ref before the provider is looked up.                    *)
check_missed(fr) == [fr EXCEPT !.pc = "lookup", !.borrow = "none"]

CacheCheck(c) ==
    /\ AtPc(c, "singleton", "check")
    /\ IF Borrowed({"mut"})
       THEN Unwind(c, Panic(BorrowError))
       ELSE LET hit == cache_get(singleton_cache, Top(c).ty) IN
            IF hit.tag # "None"
            THEN Finish(c, hit)
            ELSE /\ SetTop(c, check_missed(Top(c)))
                 /\ UNCHANGED <<okcnt, returned, ret>>
    /\ UNCHANGED <<error, di, factories, singletons, singleton_cache, calls,
                   nres, found, built, reg, nreg>>

(* A transient lookup that falls back to the singleton providers.        *)
TransientLookupAnyScope(c) ==
    /\ AtPc(c, "transient", "lookup")
    /\ LET t == Top(c).ty IN
       IF contains_key(factories, t) \/ contains_key(singletons, t)
       THEN /\ found' = Bump(found, "transient", t)
            /\ calls' = Bump(calls, "transient", t)
            /\ SetTop(c, [Top(c) EXCEPT !.pc = "factory",
                                        !.made = calls'["transient"][t]])
            /\ UNCHANGED <<okcnt, returned, ret>>
       ELSE /\ Finish(c, Err(NotRegisteredMsg("transient", t)))
            /\ UNCHANGED <<calls, found>>
    /\ UNCHANGED <<error, di, factories, singletons, singleton_cache, nres, built, nreg, reg>>

(* try_get: if let Some(factory) = self.factories.get(&type_id) invokes   *)
(* the factory, else Err("No transient factory registered for type: T").  *)
TransientLookup(c) ==
    /\ AtPc(c, "transient", "lookup")
    /\ LET t == Top(c).ty IN
       IF contains_key(factories, t)
       THEN /\ found' = Bump(found, "transient", t)
            /\ calls' = Bump(calls, "transient", t)
            /\ SetTop(c, [Top(c) EXCEPT !.pc = "factory",
                                        !.made = calls'["transient"][t]])
            /\ UNCHANGED <<okcnt, returned, ret>>
       ELSE /\ Finish(c, Err(NotRegisteredMsg("transient", t)))
            /\ UNCHANGED <<calls, found>>
    /\ UNCHANGED <<error, di, factories, singletons, singleton_cache, nres, built, nreg, reg>>

(* A lookup that puts the instance into the cache before its factory has  *)
(* returned.                                                              *)
SingletonLookupEager(c) ==
    /\ AtPc(c, "singleton", "lookup")
    /\ LET t == Top(c).ty IN
       IF contains_key(singletons, t)
       THEN /\ found' = Bump(found, "singleton", t)
            /\ calls' = Bump(calls, "singleton", t)
            /\ SetTop(c, [Top(c) EXCEPT !.pc = "factory",
                                        !.made = calls'["singleton"][t]])
            /\ singleton_cache' = insert(singleton_cache, t,
                                         Instance(t, "singleton", calls'["singleton"][t]))
            /\ UNCHANGED <<okcnt, returned, ret>>
       ELSE /\ Finish(c, Err(NotRegisteredMsg("singleton", t)))
            /\ UNCHANGED <<calls, found, singleton_cache>>
    /\ UNCHANGED <<error, di, factories, singletons, nres, built, nreg, reg>>

(* try_get_singleton, "Create new instance and cache it": if let          *)
(* Some(factory) = self.singletons.get(&type_id) invokes the factory (the *)
(* cache is written only after it returned), else                         *)
(* Err("No singleton factory registered for type: T").                    *)
SingletonLookup(c) ==
    /\ AtPc(c, "singleton", "lookup")
    /\ LET t == Top(c).ty IN
       IF contains_key(singletons, t)
       THEN /\ found' = Bump(found, "singleton", t)
            /\ calls' = Bump(calls, "singleton", t)
            /\ SetTop(c, [Top(c) EXCEPT !.pc = "factory",
                                        !.made = calls'["singleton"][t]])
            /\ UNCHANGED <<okcnt, returned, ret>>
       ELSE /\ Finish(c, Err(NotRegisteredMsg("singleton", t)))
            /\ UNCHANGED <<calls, found>>
    /\ UNCHANGED <<error, di, factories, singletons, singleton_cache, nres, built, nreg, reg>>

(* A resolution that hands out the first value its factory ever made.    *)
ProducedFirst(fr) == Instance(fr.ty, fr.scope, 1)

(* A closure whose box holds a value of another type than its key.       *)
ProducedOther(fr) == Instance(CHOOSE u \in Types : u # fr.ty, fr.scope, fr.made)

(* The registered closure |di| Box::new(factory(di)) returns the value of *)
(* the type it was registered for.                                        *)
Produced(fr) == Instance(fr.ty, fr.scope, fr.made)

(* match boxed_any.downcast::<T>() *)
downcast_result(inst, t) == IF downcast(inst, t) THEN Ok(inst) ELSE Err(WrongTypeMsg(t))

(* A transient resolution that also caches the value it returns.         *)
TransientReturnCaching(c) ==
    /\ AtPc(c, "transient", "factory")
    /\ built' = Bump(built, "transient", Top(c).ty)
    /\ singleton_cache' = insert(singleton_cache, Top(c).ty, Produced(Top(c)))
    /\ Finish(c, downcast_result(Produced(Top(c)), Top(c).ty))
    /\ UNCHANGED <<error, di, factories, singletons, calls,
                   nres, found, reg, nreg>>

(* try_get: the factory returned; the box is downcast and handed out.     *)
TransientReturn(c) ==
    /\ AtPc(c, "transient", "factory")
    /\ built' = Bump(built, "transient", Top(c).ty)
    /\ Finish(c, downcast_result(Produced(Top(c)), Top(c).ty))
    /\ UNCHANGED <<error, di, factories, singletons, singleton_cache, calls,
                   nres, found, reg, nreg>>

(* try_get_singleton: the factory returned.                               *)
SingletonReturn(c) ==
    /\ AtPc(c, "singleton", "factory")
    /\ SetTop(c, [Top(c) EXCEPT !.pc = "insert"])
    /\ built' = Bump(built, "singleton", Top(c).ty)
    /\ UNCHANGED <<error, di, factories, singletons, singleton_cache, calls, nres, found,
                   okcnt, returned, ret, reg, nreg>>

(* self.singleton_cache.borrow_mut().insert(type_id, rc_any) *)
cache_insert(cache, t, inst) == insert(cache, t, inst)

(* try_get_singleton: downcast, Rc::new, insert into the cache, Ok(rc).   *)
CacheInsert(c) ==
    /\ AtPc(c, "singleton", "insert")
    /\ LET r == downcast_result(Produced(Top(c)), Top(c).ty) IN
       IF r.tag = "Ok" /\ Borrowed({"ref", "mut"})
       THEN /\ Unwind(c, Panic(BorrowMutError))
            /\ UNCHANGED singleton_cache
       ELSE /\ singleton_cache' = IF r.tag = "Ok"
                                  THEN cache_insert(singleton_cache, Top(c).ty, r.val)
                                  ELSE singleton_cache
            /\ Finish(c, r)
    /\ UNCHANGED <<error, di, factories, singletons, calls, nres, found, built, reg, nreg>>

(* The factory itself panics (an unwrap or an assertion in its body).     *)
FactoryPanics(c) ==
    /\ stack[c] # <<>>
    /\ Top(c).pc = "factory"
    /\ Unwind(c, Panic(<<"factory panicked">>))
    /\ UNCHANGED <<error, di, factories, singletons, singleton_cache, calls,
                   nres, found, built, reg, nreg>>

-----------------------------------------------------------------------------
(* The error helpers of the container crate (src/sadi/src/error.rs) *)

(* A string is a sequence of text pieces; format! concatenates the        *)
(* literal pieces of its format string and its arguments.  An argument    *)
(* may hold any text, the separators of the format strings included.      *)
Alphabet == {"A", "B", ": ", " -> "}

(* Longest argument string, in pieces. *)
MaxStr == 2

(* Longest dependency chain. *)
MaxChain == 3

SeqsUpTo(S, n) == UNION {[1..k -> S] : k \in 1..n}

Str == SeqsUpTo(Alphabet, MaxStr)

(* Type names that occur in dependency chains: std::any::type_name of a   *)
(* struct, and of a function type such as fn(A) -> B.                     *)
ChainNames == {<<"A">>, <<"B">>, <<"A", " -> ", "B">>}

Chains == SeqsUpTo(ChainNames, MaxChain)

(* enum ErrorKind *)
ErrorKind == {"ServiceNotProvided", "TypeMismatch", "ProviderAlreadyRegistered",
              "CircularDependency", "FactoryExecutionFailed", "InvalidScope",
              "ModuleLoadFailed"}

(* Error::new(kind, message) *)
Error_new(kind, message) == [kind |-> kind, message |-> message]

(* A join that names each identity once.                                  *)
RECURSIVE join_once(_, _)
join_once(chain, sep) ==
    IF chain = <<>> THEN <<>>
    ELSE IF Len(chain) = 1 THEN chain[1]
    ELSE IF \E i \in 2..Len(chain) : chain[i] = chain[1]
    THEN join_once(Tail(chain), sep)
    ELSE chain[1] \o sep \o join_once(Tail(chain), sep)

(* <[&str]>::join(sep): the elements, sep between consecutive ones.       *)
RECURSIVE join(_, _)
join(chain, sep) ==
    IF chain = <<>> THEN <<>>
    ELSE IF Len(chain) = 1 THEN chain[1]
    ELSE chain[1] \o sep \o join(Tail(chain), sep)

(* Error::service_not_provided(type_name) *)
service_not_provided(tn) ==
    Error_new("ServiceNotProvided", <<"No provider registered for type: ">> \o tn)

(* Error::type_mismatch(type_name) *)
type_mismatch(tn) ==
    Error_new("TypeMismatch", <<"Type mismatch when resolving: ">> \o tn)

(* A helper that leaves the scope out of its message.                     *)
provider_already_registered_unscoped(tn, scope) ==
    Error_new("ProviderAlreadyRegistered",
              <<"Provider already registered for type: ">> \o tn)

(* Error::provider_already_registered(type_name, scope) *)
provider_already_registered(tn, scope) ==
    Error_new("ProviderAlreadyRegistered",
              <<"Provider (">> \o scope \o <<" scope) already registered for type: ">> \o tn)

(* Error::circular_dependency(dependency_chain) *)
circular_dependency(dependency_chain) ==
    Error_new("CircularDependency",
              <<"Circular dependency detected: ">> \o join(dependency_chain, <<" -> ">>))

(* Error::factory_execution_failed(type_name, reason) *)
factory_execution_failed(tn, reason) ==
    Error_new("FactoryExecutionFailed",
              <<"Factory execution failed for ">> \o tn \o <<": ">> \o reason)

(* Error::invalid_scope(reason) *)
invalid_scope(reason) ==
    Error_new("InvalidScope", <<"Invalid scope: ">> \o reason)

(* Error::module_load_failed(module_name, reason) *)
module_load_failed(module_name, reason) ==
    Error_new("ModuleLoadFailed",
              <<"Module '">> \o module_name \o <<"' failed to load: ">> \o reason)

(* The call helper(args..): the helper's name, its arguments in order     *)
(* (for circular_dependency, the identities of the chain) and its result. *)
Build(helper, args) ==
    CASE helper = "service_not_provided" -> service_not_provided(args[1])
      [] helper = "type_mismatch" -> type_mismatch(args[1])
      [] helper = "provider_already_registered" ->
             provider_already_registered(args[1], args[2])
      [] helper = "circular_dependency" -> circular_dependency(args)
      [] helper = "factory_execution_failed" ->
             factory_execution_failed(args[1], args[2])
      [] helper = "invalid_scope" -> invalid_scope(args[1])
      [] helper = "module_load_failed" -> module_load_failed(args[1], args[2])

NotBuilt == Error_new("", <<>>)

NoErrorBuilt == [helper |-> "", args |-> <<>>, err |-> NotBuilt]

(* A call of a helper that has not returned yet. *)
Pending(helper, args) == [helper |-> helper, args |-> args, err |-> NotBuilt]

(* The pending call is the one of helper. *)
Calling(helper) == error.helper = helper /\ error.err = NotBuilt

(* The helper returns the error it built. *)
Built(err) ==
    /\ error' = [error EXCEPT !.err = err]
    /\ UNCHANGED <<di, factories, singletons, singleton_cache, stack, calls,
                   nres, found, built, okcnt, returned, ret, reg, nreg>>

ServiceNotProvided ==
    /\ Calling("service_not_provided")
    /\ Built(service_not_provided(error.args[1]))

TypeMismatch ==
    /\ Calling("type_mismatch")
    /\ Built(type_mismatch(error.args[1]))

ProviderAlreadyRegistered ==
    /\ Calling("provider_already_registered")
    /\ Built(provider_already_registered(error.args[1], error.args[2]))

CircularDependency ==
    /\ Calling("circular_dependency")
    /\ Built(circular_dependency(error.args))

FactoryExecutionFailed ==
    /\ Calling("factory_execution_failed")
    /\ Built(factory_execution_failed(error.args[1], error.args[2]))

InvalidScope ==
    /\ Calling("invalid_scope")
    /\ Built(invalid_scope(error.args[1]))

ModuleLoadFailed ==
    /\ Calling("module_load_failed")
    /\ Built(module_load_failed(error.args[1], error.args[2]))

-----------------------------------------------------------------------------
(* Specifications *)

Init ==
    /\ di = new.di
    /\ factories = new.factories
    /\ singletons = new.singletons
    /\ singleton_cache = new.singleton_cache
    /\ stack = [c \in Ctx |-> <<>>]
    /\ calls = ZeroHist
    /\ nres = 0
    /\ found = ZeroHist
    /\ built = ZeroHist
    /\ okcnt = ZeroHist
    /\ returned = NoneReturned
    /\ ret = [c \in Ctx |-> NoRet]
    /\ reg = NoReg
    /\ nreg = 0
    /\ error = NoErrorBuilt

Register ==
    \/ New
    \/ \E t \in Types, f \in Closures : TryFactory(t, f)
    \/ \E t \in Types, f \in Closures : Factory(t, f)
    \/ \E t \in Types, f \in Closures : TryFactorySingleton(t, f)
    \/ \E t \in Types, f \in Closures : FactorySingleton(t, f)

Call(c) ==
    \/ \E t \in Types : TryGet(c, t)
    \/ \E t \in Types : Get(c, t)
    \/ \E t \in Types : TryGetSingleton(c, t)
    \/ \E t \in Types : GetSingleton(c, t)

Step(c) ==
    \/ CacheCheck(c)
    \/ TransientLookup(c)
    \/ SingletonLookup(c)
    \/ TransientReturn(c)
    \/ SingletonReturn(c)
    \/ CacheInsert(c)
    \/ FactoryPanics(c)

(* The container is used from one execution context (it is neither Send   *)
(* nor Sync): registrations and resolutions, nested through factories.    *)
Next == Register \/ Call(1) \/ Step(1)

Spec == Init /\ [][Next]_vars

(* Several execution contexts resolve from one container and their steps  *)
(* interleave; the factories resolve nothing themselves.                  *)
CallTop(c) == stack[c] = <<>> /\ Call(c)

NextConc == Register \/ \E c \in Ctx : (CallTop(c) \/ Step(c))

SpecConc == Init /\ [][NextConc]_vars

(* The error helpers, each called with argument strings (a dependency     *)
(* chain for circular_dependency) on a container nothing was done with.   *)
ErrInit ==
    /\ di = new.di
    /\ factories = new.factories
    /\ singletons = new.singletons
    /\ singleton_cache = new.singleton_cache
    /\ stack = [c \in Ctx |-> <<>>]
    /\ calls = ZeroHist
    /\ nres = 0
    /\ found = ZeroHist
    /\ built = ZeroHist
    /\ okcnt = ZeroHist
    /\ returned = NoneReturned
    /\ ret = [c \in Ctx |-> NoRet]
    /\ reg = NoReg
    /\ nreg = 0
    /\ error \in
         {Pending(h, <<a>>) :
              h \in {"service_not_provided", "type_mismatch", "invalid_scope"},
              a \in Str}
         \cup
         {Pending(h, <<a, b>>) :
              h \in {"provider_already_registered", "factory_execution_failed",
                     "module_load_failed"},
              a \in Str, b \in Str}
         \cup
         {Pending("circular_dependency", ch) : ch \in Chains}

ErrNext ==
    \/ ServiceNotProvided
    \/ TypeMismatch
    \/ ProviderAlreadyRegistered
    \/ CircularDependency
    \/ FactoryExecutionFailed
    \/ InvalidScope
    \/ ModuleLoadFailed

ErrSpec == ErrInit /\ [][ErrNext]_vars

-----------------------------------------------------------------------------
(* Properties *)

(* C1: for every identity with a singleton provider, as soon as one       *)
(* resolution of it has returned Ok, its factory has been run to          *)
(* completion exactly once in total (invocations that panicked are not    *)
(* counted) and every Ok result of it is the same instance.               *)
C1_SharedBuiltOnce ==
    \A t \in Types :
        okcnt["singleton"][t] >= 1 =>
            /\ built["singleton"][t] = 1
            /\ Cardinality(returned["singleton"][t]) = 1

(* C2: for every identity with a transient provider, every resolution     *)
(* that found the provider invoked the factory exactly once (N            *)
(* resolutions, N invocations), every Ok result is the instance made by   *)
(* the resolution's own invocation, so the Ok results are pairwise        *)
(* distinct instances, and an instance still under construction has not   *)
(* been handed out by any other resolution.                               *)
C2_TransientFreshEachTime ==
    \A t \in Types :
        /\ calls["transient"][t] = found["transient"][t]
        /\ okcnt["transient"][t] = Cardinality(returned["transient"][t])
        /\ returned["transient"][t] \subseteq
               {Instance(t, "transient", n) : n \in 1..calls["transient"][t]}
        /\ \A c \in Ctx : \A i \in 1..Len(stack[c]) :
               LET fr == stack[c][i] IN
               (fr.ty = t /\ fr.scope = "transient" /\ fr.pc = "factory") =>
                   /\ fr.made \in 1..calls["transient"][t]
                   /\ Instance(t, "transient", fr.made) \notin returned["transient"][t]
                   /\ \A j \in 1..Len(stack[c]) :
                          (j # i /\ stack[c][j].ty = t /\ stack[c][j].scope = "transient"
                                 /\ stack[c][j].pc = "factory")
                              => stack[c][j].made # fr.made

(* Two resolutions of one transient identity returned Ok, with two        *)
(* invocations of its factory.                                            *)
C2_Witness ==
    \E t \in Types :
        /\ okcnt["transient"][t] = 2
        /\ calls["transient"][t] = 2
        /\ ret[1] = [ty |-> t, scope |-> "transient",
                     out |-> Ok(Instance(t, "transient", 2))]

C4_UnregisteredIsNotProvided ==
    [][\A c \in Ctx :
        LET fr == Top(c)
            n == Len(stack[c])
            msg == <<"No ", fr.scope, " factory registered for type: ", fr.ty>>
            map == IF fr.scope = "transient" THEN factories ELSE singletons
        IN
        (stack[c] # <<>> /\ ~contains_key(map, fr.ty) /\ stack'[c] # stack[c]) =>
            /\ calls' = calls
            /\ built' = built
            /\ singleton_cache' = singleton_cache
            /\ fr.pc \in {"check", "lookup"}
            /\ fr.pc = "check" => stack'[c] = [stack[c] EXCEPT ![n].pc = "lookup"]
            /\ fr.pc = "lookup" =>
                   IF fr.panicking
                   THEN stack'[c] = <<>> /\ ret'[c].out = Panic(msg)
                   ELSE IF n = 1
                   THEN /\ stack'[c] = <<>>
                        /\ ret'[c] = [ty |-> fr.ty, scope |-> fr.scope, out |-> Err(msg)]
                   ELSE /\ Len(stack'[c]) = n - 1
                        /\ stack[c][n - 1].nerr = <<>> => stack'[c][n - 1].nerr = msg
      ]_vars

(* Both entry points returned the error to the application, and a factory *)
(* has run on the container.                                              *)
C4_Witness ==
    \E t \in Types, u \in Types :
        /\ ret[1] = [ty |-> t, scope |-> "singleton",
                     out |-> Err(<<"No ", "singleton", " factory registered for type: ", t>>)]
        /\ ~contains_key(singletons, t)
        /\ ~contains_key(factories, t)
        /\ calls["transient"][u] > 0

(* C5: when the factory of an identity resolves a second identity whose   *)
(* factory resolves the first one again, the re-entry is reported as a    *)
(* CircularDependency (A -> B -> A) instead of the factory of the first   *)
(* identity being invoked again: no call path holds x, y, x, all three    *)
(* under construction, with the factory of the second x invoked.          *)
C5_CycleIsReported ==
    \A c \in Ctx : \A i, j, k \in 1..Len(stack[c]) :
        (/\ i < j /\ j < k
         /\ stack[c][i].ty = stack[c][k].ty
         /\ stack[c][i].scope = stack[c][k].scope
         /\ stack[c][j].ty # stack[c][i].ty)
        => stack[c][k].pc \notin {"factory", "insert"}

Building(c, t) ==
    /\ stack[c] # <<>>
    /\ stack[c][1].ty = t
    /\ stack[c][1].scope = "singleton"
    /\ stack[c][1].pc \in {"factory", "insert"}

C7_AssemblyAllOrNothing ==
    /\ di = "live" <=> reg.tag = "Ok"
    /\ reg.tag # "Ok" => Self = NoContainer
    /\ di = "live" =>
           nreg = Cardinality(DOMAIN factories) + Cardinality(DOMAIN singletons)

(* A registration failed after two had succeeded: no container is left.   *)
C7_Witness ==
    /\ reg.tag = "Err"
    /\ reg.err.message[1] = "transient"
    /\ nreg >= 2
    /\ di = "none"

(* C8: while the container lives, an entry of the singleton cache is      *)
(* neither removed nor replaced by another instance.                      *)
C8_CacheEntryNeverReplaced ==
    [][(di' = "live" /\ ~New) =>
          \A t \in DOMAIN singleton_cache :
              /\ contains_key(singleton_cache', t)
              /\ singleton_cache'[t] = singleton_cache[t]
      ]_vars

(* C9: the singleton cache holds nothing but instances that a successful  *)
(* resolution handed out, and the step that ends a singleton resolution   *)
(* without an Ok result (an Err, or a panic that unwinds it) leaves the   *)
(* cache as it was: a failed resolution stores neither an instance nor a  *)
(* failure, so the next resolution of the identity misses the cache and   *)
(* invokes the factory again.                                             *)
C9_FailureStoresNothing ==
    /\ [](\A t \in DOMAIN singleton_cache :
              singleton_cache[t] \in returned["singleton"][t])
    /\ [][\A c \in Ctx : \A i \in 1..Len(stack[c]) :
            (/\ stack[c][i].scope = "singleton"
             /\ i > Len(stack'[c])
             /\ okcnt' = okcnt)
            => singleton_cache' = singleton_cache
         ]_vars

(* A singleton factory was invoked twice, the first resolution failed and *)
(* stored nothing, the second one returned the second instance.           *)
C9_Witness ==
    \E t \in Types :
        /\ Idle
        /\ calls["singleton"][t] = 2
        /\ okcnt["singleton"][t] = 1
        /\ ret[1] = [ty |-> t, scope |-> "singleton",
                     out |-> Ok(Instance(t, "singleton", 2))]
        /\ singleton_cache[t] = Instance(t, "singleton", 2)

(* C10: a resolution whose factory got an error from a nested resolution  *)
(* ends with that same error as its Err result, and the failure of a      *)
(* nested resolution does not abort the call of the application.          *)
C10_NestedErrorPropagates ==
    [][\A c \in Ctx :
        LET n == Len(stack[c])
            fr == Top(c)
            map == IF fr.scope = "transient" THEN factories ELSE singletons
        IN
        /\ (n = 1 /\ fr.nerr # <<>> /\ stack'[c] = <<>>) =>
               ret'[c].out = Err(fr.nerr)
        /\ (n >= 2 /\ fr.pc = "lookup" /\ ~contains_key(map, fr.ty)
                /\ stack'[c] # stack[c]) =>
               /\ stack'[c] # <<>>
               /\ ret'[c] = ret[c]
      ]_vars


(* C11: in every state reachable through the registration operations, the *)
(* value a factory produced for an identity downcasts to that identity's  *)
(* type, every entry of the singleton cache holds a value of the type it  *)
(* is keyed by, every Ok result is a value of the requested type, and no  *)
(* resolution has ended with "Factory returned wrong type for" or "Cached *)
(* instance has wrong type for", neither as the result given to the       *)
(* application nor as an error given to a factory.                        *)
C11_TypeMismatchUnreachable ==
    LET mismatch == {WrongTypeMsg(t) : t \in Types} \cup {CachedWrongTypeMsg(t) : t \in Types}
    IN
    /\ \A t \in DOMAIN singleton_cache : downcast(singleton_cache[t], t)
    /\ \A s \in Scopes, t \in Types : \A v \in returned[s][t] : v.ty = t /\ v.scope = s
    /\ \A c \in Ctx :
           /\ ret[c].out.tag = "Ok" => ret[c].out.val.ty = ret[c].ty
           /\ ret[c].out.msg \notin mismatch
           /\ \A i \in 1..Len(stack[c]) :
                  /\ stack[c][i].nerr \notin mismatch
                  /\ stack[c][i].pc \in {"factory", "insert"} =>
                         downcast(Produced(stack[c][i]), stack[c][i].ty)

(* A singleton was built and then served from the cache, and a transient  *)
(* was resolved, each as a value of the requested type.                   *)
C11_Witness ==
    \E t \in Types, u \in Types :
        /\ okcnt["singleton"][t] = 2
        /\ contains_key(singleton_cache, t)
        /\ ret[1] = [ty |-> t, scope |-> "singleton", out |-> Ok(singleton_cache[t])]
        /\ okcnt["transient"][u] = 1


(* C12: once a resolution has been performed on a container (it returned  *)
(* a result to the application, or aborted), no operation adds a provider *)
(* to that container: the identities of both provider maps never grow.    *)
C12_RegistryFrozenOnceServing ==
    [][((\E c \in Ctx : ret[c] # NoRet) /\ ~New) =>
          /\ DOMAIN factories' \subseteq DOMAIN factories
          /\ DOMAIN singletons' \subseteq DOMAIN singletons
      ]_vars


(* C13: on every reachable container and for every identity, factory and  *)
(* factory_singleton abort exactly when try_factory and                   *)
(* try_factory_singleton return Err, with that error, and otherwise       *)
(* return the same container; and every step that ends a resolution       *)
(* entered through get / get_singleton aborts the call of the application *)
(* with the message of the Err that try_get / try_get_singleton returns   *)
(* in that state, and otherwise hands its caller the same Ok value; the   *)
(* provider maps and the cache change in the same way for both.           *)
C13_PanickingEqualsTry ==
    /\ [](di = "live" =>
            \A t \in Types, f \in Closures :
                LET r == try_factory(Self, t, f)
                    p == factory(Self, t, f)
                    rs == try_factory_singleton(Self, t, f)
                    ps == factory_singleton(Self, t, f)
                IN
                /\ r.tag \in {"Ok", "Err"} /\ rs.tag \in {"Ok", "Err"}
                /\ p.tag = "Panic" <=> r.tag = "Err"
                /\ ps.tag = "Panic" <=> rs.tag = "Err"
                /\ r.tag = "Err" => (p.err = r.err /\ p.self = r.self)
                /\ rs.tag = "Err" => (ps.err = rs.err /\ ps.self = rs.self)
                /\ r.tag = "Ok" => p = r
                /\ rs.tag = "Ok" => ps = rs)
    /\ [][\A c \in Ctx :
            LET n == Len(stack[c])
                fr == Top(c)
                out == IF fr.pc = "check" THEN cache_get(singleton_cache, fr.ty)
                       ELSE IF fr.pc = "lookup" THEN Err(NotRegisteredMsg(fr.scope, fr.ty))
                       ELSE downcast_result(Produced(fr), fr.ty)
            IN
            (/\ stack[c] # <<>>
             /\ Len(stack'[c]) < n
             /\ \/ CacheCheck(c) \/ TransientLookup(c) \/ SingletonLookup(c)
                \/ TransientReturn(c) \/ CacheInsert(c))
            =>
            /\ out.tag \in {"Ok", "Err"}
            /\ (out.tag = "Err" /\ fr.panicking) =>
                   (stack'[c] = <<>> /\ ret'[c].out = Panic(out.msg))
            /\ (out.tag = "Ok" \/ ~fr.panicking) =>
                   /\ Len(stack'[c]) = n - 1
                   /\ n = 1 => ret'[c] = [ty |-> fr.ty, scope |-> fr.scope, out |-> out]
                   /\ n > 1 => ret'[c] = ret[c]
            /\ out.tag = "Ok" => out.val \in returned'[fr.scope][fr.ty]
            /\ factories' = factories /\ singletons' = singletons /\ di' = di
            /\ singleton_cache' =
                   IF fr.pc = "insert" /\ out.tag = "Ok"
                   THEN insert(singleton_cache, fr.ty, out.val)
                   ELSE singleton_cache
         ]_vars

(* get_singleton aborted with the error of try_get_singleton on a         *)
(* container from which get had returned a value.                         *)
C13_Witness ==
    \E t \in Types, u \in Types :
        /\ ret[1] = [ty |-> t, scope |-> "singleton",
                     out |-> Panic(<<"No ", "singleton", " factory registered for type: ", t>>)]
        /\ okcnt["transient"][u] >= 1
        /\ contains_key(factories, u)
        /\ di = "live"


(* C14: a resolution in progress never waits for another execution        *)
(* context: whatever the other contexts are doing (constructing another   *)
(* identity, or the same one), the context can take its next step, and a  *)
(* step of one context leaves the call paths and the pending results of   *)
(* the others untouched.  In particular resolutions of different          *)
(* identities, of a transient identity and of a cached singleton never    *)
(* wait.                                                                  *)
C14_ResolutionNeverWaits ==
    /\ [](\A c \in Ctx : stack[c] # <<>> => ENABLED Step(c))
    /\ [][\A c \in Ctx : Step(c) =>
            \A d \in Ctx \ {c} : stack'[d] = stack[d] /\ ret'[d] = ret[d]]_vars

(* One context is constructing a singleton while the other constructs a   *)
(* different identity.                                                    *)
C14_Witness ==
    \E t \in Types : \E u \in Types \ {t} :
        /\ Building(1, t)
        /\ stack[2] # <<>>
        /\ stack[2][1].ty = u
        /\ stack[2][1].pc = "factory"


(* C15: a registration that succeeds invokes no factory and leaves the    *)
(* singleton cache as it was, and on every container the cache holds an   *)
(* entry for an identity exactly when at least one singleton resolution   *)
(* of that identity has returned Ok.                                      *)
C15_SharedCreatedLazily ==
    /\ [](di = "live" =>
            \A t \in Types :
                contains_key(singleton_cache, t) <=> okcnt["singleton"][t] >= 1)
    /\ [][\A t \in Types, f \in Closures :
            ((\/ TryFactorySingleton(t, f) \/ FactorySingleton(t, f)
              \/ TryFactory(t, f) \/ Factory(t, f)) /\ di' = "live")
            => /\ calls' = calls
               /\ built' = built
               /\ singleton_cache' = singleton_cache
         ]_vars

(* Two singleton providers are registered; one was resolved and is        *)
(* cached, the factory of the other has never run and it has no entry.    *)
C15_Witness ==
    \E t \in Types : \E u \in Types \ {t} :
        /\ contains_key(singletons, t) /\ contains_key(singletons, u)
        /\ contains_key(singleton_cache, t)
        /\ okcnt["singleton"][t] >= 1
        /\ calls["singleton"][u] = 0
        /\ ~contains_key(singleton_cache, u)
        /\ Idle


(* str::contains: s occurs in msg as a contiguous piece of text. *)
Contains(msg, s) ==
    \E i \in 0..(Len(msg) - Len(s)) : SubSeq(msg, i + 1, i + Len(s)) = s

(* The ErrorKind variant that corresponds to a helper. *)
KindOf(helper) ==
    CASE helper = "service_not_provided" -> "ServiceNotProvided"
      [] helper = "type_mismatch" -> "TypeMismatch"
      [] helper = "provider_already_registered" -> "ProviderAlreadyRegistered"
      [] helper = "circular_dependency" -> "CircularDependency"
      [] helper = "factory_execution_failed" -> "FactoryExecutionFailed"
      [] helper = "invalid_scope" -> "InvalidScope"
      [] helper = "module_load_failed" -> "ModuleLoadFailed"

(* The argument lists a helper is called with. *)
ArgsOf(helper) ==
    IF helper = "circular_dependency" THEN Chains
    ELSE IF helper \in {"service_not_provided", "type_mismatch", "invalid_scope"}
    THEN {<<a>> : a \in Str}
    ELSE {<<a, b>> : a \in Str, b \in Str}

(* The argument lists that differ from args in exactly one position. *)
OneOff(helper, args) ==
    {[args EXCEPT ![i] = s] :
        i \in DOMAIN args,
        s \in IF helper = "circular_dependency" THEN ChainNames ELSE Str} \ {args}

(* C16, as stated: the error a helper returns has the kind of the helper  *)
(* and a message that contains every argument, and an error built by the  *)
(* same helper for any other arguments has the same kind and a different  *)
(* message.                                                               *)
C16_HelperKindAndDistinctMessages ==
    error.err # NotBuilt =>
        /\ error.err.kind = KindOf(error.helper)
        /\ error.err.kind \in ErrorKind
        /\ \A i \in DOMAIN error.args : Contains(error.err.message, error.args[i])
        /\ \A b \in ArgsOf(error.helper) \ {error.args} :
               /\ Build(error.helper, b).kind = error.err.kind
               /\ Build(error.helper, b).message # error.err.message

(* C16, amended: the error a helper returns has the kind of the helper    *)
(* and a message that contains every argument; an error built by the same *)
(* helper for other arguments has the same kind, and a different message  *)
(* when the two argument lists differ in exactly one position (always,    *)
(* for the helpers that take one string).                                 *)
C16_HelperKindAndMessage ==
    error.err # NotBuilt =>
        /\ error.err.kind = KindOf(error.helper)
        /\ error.err.kind \in ErrorKind
        /\ \A i \in DOMAIN error.args : Contains(error.err.message, error.args[i])
        /\ \A b \in OneOff(error.helper, error.args) :
               /\ Build(error.helper, b).kind = error.err.kind
               /\ Build(error.helper, b).message # error.err.message

(* provider_already_registered returned an error for a type name and a    *)
(* scope that differ.                                                     *)
C16_Witness ==
    /\ error.helper = "provider_already_registered"
    /\ error.args = << <<"A">>, <<"B">> >>
    /\ error.err.kind = "ProviderAlreadyRegistered"
    /\ Len(error.err.message) = 4


(* The number of text pieces of the message in front of identity i. *)
RECURSIVE Offset(_, _)
Offset(chain, i) ==
    IF i = 1 THEN 1 ELSE Offset(chain, i - 1) + Len(chain[i - 1]) + 1

(* C17: for every non-empty chain, the message of the error returned by   *)
(* circular_dependency is "Circular dependency detected: " followed by    *)
(* the identities of the chain in the order given, identity i at its own  *)
(* position whether or not it occurred before, with " -> " between each   *)
(* consecutive pair and nothing else.                                     *)
C17_ChainListedInOrder ==
    (error.helper = "circular_dependency" /\ error.err # NotBuilt) =>
        LET chain == error.args
            m == error.err.message
            n == Len(chain)
        IN
        /\ n >= 1
        /\ error.err.kind = "CircularDependency"
        /\ Len(m) = Offset(chain, n) + Len(chain[n])
        /\ m[1] = "Circular dependency detected: "
        /\ \A i \in 1..n :
               SubSeq(m, Offset(chain, i) + 1, Offset(chain, i) + Len(chain[i])) = chain[i]
        /\ \A i \in 1..(n - 1) : m[Offset(chain, i) + Len(chain[i]) + 1] = " -> "

(* The chain [A, B, A] gave "Circular dependency detected: A -> B -> A".  *)
C17_Witness ==
    /\ error.helper = "circular_dependency"
    /\ error.args = << <<"A">>, <<"B">>, <<"A">> >>
    /\ error.err.message =
           <<"Circular dependency detected: ", "A", " -> ", "B", " -> ", "A">>


(* C18: whenever the factory of a transient identity receives a singleton *)
(* of another identity from a nested resolution, the factory of that      *)
(* singleton has run to completion exactly once in total and every        *)
(* resolution of it so far returned that one instance; and a nested       *)
(* resolution that finds the singleton in the cache invokes no factory.   *)
C18_SharedDependencyBuiltOnce ==
    [][\A c \in Ctx :
        LET n == Len(stack[c])
            fr == Top(c)
        IN
        (/\ n >= 2
         /\ fr.scope = "singleton"
         /\ stack[c][n - 1].scope = "transient"
         /\ stack[c][n - 1].ty # fr.ty
         /\ Len(stack'[c]) = n - 1
         /\ okcnt'["singleton"][fr.ty] = okcnt["singleton"][fr.ty] + 1)
        =>
        /\ built'["singleton"][fr.ty] = 1
        /\ Cardinality(returned'["singleton"][fr.ty]) = 1
        /\ fr.pc = "check" => calls' = calls
      ]_vars


(* C19: on every call path, the number of nested resolutions whose        *)
(* factories are running never exceeds the number of registered           *)
(* identities, so that a resolution over any registered graph, one with a *)
(* cycle included, comes to an end.                                       *)
C19_DepthBoundedByRegistry ==
    \A c \in Ctx :
        Cardinality({i \in 1..Len(stack[c]) : stack[c][i].pc \in {"factory", "insert"}})
            <= Cardinality((DOMAIN factories) \cup (DOMAIN singletons))

(* C20: on every call path, the resolutions whose factories are running   *)
(* are of pairwise distinct identities: no factory is entered while an    *)
(* invocation of the same factory is still in progress below it.          *)
C20_InProgressIdentitiesDistinct ==
    \A c \in Ctx : \A i, j \in 1..Len(stack[c]) :
        (/\ i < j
         /\ stack[c][i].pc = "factory"
         /\ stack[c][j].pc = "factory"
         /\ stack[c][i].scope = stack[c][j].scope)
        => stack[c][i].ty # stack[c][j].ty


(* The step is a call of one of the four registration operations. *)
Registers(t, f) ==
    \/ TryFactory(t, f) \/ Factory(t, f)
    \/ TryFactorySingleton(t, f) \/ FactorySingleton(t, f)

(* On a container that lives on, every provider entry is kept as it was. *)
BindingsKept ==
    /\ \A x \in DOMAIN factories :
           contains_key(factories', x) /\ factories'[x] = factories[x]
    /\ \A x \in DOMAIN singletons :
           contains_key(singletons', x) /\ singletons'[x] = singletons[x]

(* A registration that succeeds adds one entry, for its own identity, to  *)
(* the map of its scope and leaves the other map and the cache unchanged; *)
(* a resolution step leaves both provider maps unchanged.                 *)
BindingsImmutable ==
    /\ (di' = "live" /\ ~New) => BindingsKept
    /\ \A t \in Types, f \in Closures :
           (Registers(t, f) /\ reg'.tag = "Ok") =>
               /\ singleton_cache' = singleton_cache
               /\ Cardinality(DOMAIN factories') + Cardinality(DOMAIN singletons')
                      = Cardinality(DOMAIN factories) + Cardinality(DOMAIN singletons) + 1
               /\ (DOMAIN factories') \cup (DOMAIN singletons')
                      = (DOMAIN factories) \cup (DOMAIN singletons) \cup {t}
               /\ (TryFactory(t, f) \/ Factory(t, f)) =>
                      (factories' = insert(factories, t, f) /\ singletons' = singletons)
               /\ (TryFactorySingleton(t, f) \/ FactorySingleton(t, f)) =>
                      (singletons' = insert(singletons, t, f) /\ factories' = factories)
    /\ \A c \in Ctx :
           (Call(c) \/ Step(c)) =>
               (factories' = factories /\ singletons' = singletons /\ di' = di)

(* C21, as stated: bindings are immutable (see BindingsImmutable) and a   *)
(* rejected registration changes nothing.                                 *)
C21_BindingsImmutableRejectChangesNothing ==
    [][/\ BindingsImmutable
       /\ \A t \in Types, f \in Closures :
              (Registers(t, f) /\ reg'.tag # "Ok") =>
                  /\ di' = di
                  /\ factories' = factories
                  /\ singletons' = singletons
                  /\ singleton_cache' = singleton_cache
      ]_vars

(* C21, amended: bindings are immutable (see BindingsImmutable) and a     *)
(* rejected registration writes no entry: it returns its error before any *)
(* insert and the container it took by value is dropped, so no container  *)
(* with a changed binding is ever handed back.                            *)
C21_BindingsImmutable ==
    [][/\ BindingsImmutable
       /\ \A t \in Types, f \in Closures :
              (Registers(t, f) /\ reg'.tag # "Ok") =>
                  /\ contains_key(IF reg'.err.message[1] = "transient"
                                  THEN factories ELSE singletons, t)
                  /\ di' = "none"
                  /\ factories' = EmptyMap
                  /\ singletons' = EmptyMap
                  /\ singleton_cache' = EmptyMap
      ]_vars

(* An identity has a provider in each scope and a cached instance, and a  *)
(* resolution through it has failed: both bindings are in place.          *)
C21_Witness ==
    \E t \in Types :
        /\ contains_key(factories, t) /\ contains_key(singletons, t)
        /\ contains_key(singleton_cache, t)
        /\ nreg = 2
        /\ reg.tag = "Ok"
        /\ ret[1].out.tag = "Err"


(* C22: no activation holds a borrow of the singleton cache from one step *)
(* to the next, in particular none whose factory is running or that waits *)
(* for its provider lookup, however deep the resolutions are nested; so   *)
(* neither borrow() nor borrow_mut() ever finds a conflicting borrow and  *)
(* no resolution aborts with BorrowError or BorrowMutError.               *)
C22_NoBorrowAcrossFactory ==
    /\ ~Borrowed({"ref", "mut"})
    /\ \A c \in Ctx :
           /\ ret[c].out.msg \notin {BorrowError, BorrowMutError}
           /\ \A i \in 1..Len(stack[c]) :
                  stack[c][i].nerr \notin {BorrowError, BorrowMutError}

(* A nested resolution has checked the cache, built a singleton and       *)
(* inserted it while the factory of the outer singleton resolution, which *)
(* had checked the cache before, is still running.                        *)
C22_Witness ==
    \E t \in Types, u \in Types :
        /\ Len(stack[1]) = 1
        /\ stack[1][1].scope = "singleton"
        /\ stack[1][1].ty = t
        /\ stack[1][1].pc = "factory"
        /\ nres = 2
        /\ okcnt["singleton"][u] = 1
        /\ contains_key(singleton_cache, u)


(* C23: on every container, every identity that has an entry in the       *)
(* singleton cache has a singleton provider, and the entry is an instance *)
(* that provider's factory made; a step of a transient resolution leaves  *)
(* the cache unchanged, and so does a step of a resolution of an identity *)
(* that has no singleton provider.                                        *)
C23_CachedOnlyIfSharedProvider ==
    /\ [](di = "live" =>
            \A t \in DOMAIN singleton_cache :
                /\ contains_key(singletons, t)
                /\ singleton_cache[t].scope = "singleton"
                /\ singleton_cache[t].n \in 1..calls["singleton"][t])
    /\ [][\A c \in Ctx :
            (/\ stack[c] # <<>>
             /\ (Step(c) \/ Call(c))
             /\ \/ Top(c).scope = "transient"
                \/ ~contains_key(singletons, Top(c).ty))
            => singleton_cache' = singleton_cache
         ]_vars

(* A transient identity without a singleton provider was resolved and has *)
(* no cache entry, while a singleton identity is cached.                  *)
C23_Witness ==
    \E t \in Types : \E u \in Types \ {t} :
        /\ okcnt["transient"][t] >= 1
        /\ ~contains_key(singletons, t)
        /\ ~contains_key(singleton_cache, t)
        /\ contains_key(singletons, u)
        /\ contains_key(singleton_cache, u)


(* C24: the provider maps are separate lookup namespaces.  A resolution   *)
(* returns Ok only if its identity has a provider in the map of its own   *)
(* entry point (factories for try_get, singletons for try_get_singleton), *)
(* and with such a provider its own return is Ok (it fails only by a      *)
(* panic inside the factory); without one it invokes no factory and ends  *)
(* with the not-registered error of its own scope, also when the identity *)
(* has a provider in the other map.                                       *)
C24_ScopesAreSeparateNamespaces ==
    [][\A c \in Ctx :
        LET n == Len(stack[c])
            fr == Top(c)
            own == IF fr.scope = "transient" THEN factories ELSE singletons
            msg == <<"No ", fr.scope, " factory registered for type: ", fr.ty>>
            succeeds == okcnt'[fr.scope][fr.ty] = okcnt[fr.scope][fr.ty] + 1
        IN
        (/\ stack[c] # <<>>
         /\ \/ CacheCheck(c) \/ TransientLookup(c) \/ SingletonLookup(c)
            \/ TransientReturn(c) \/ SingletonReturn(c) \/ CacheInsert(c))
        =>
        /\ succeeds => contains_key(own, fr.ty)
        /\ (contains_key(own, fr.ty) /\ Len(stack'[c]) < n) => succeeds
        /\ (~contains_key(own, fr.ty) /\ fr.pc = "lookup") =>
               /\ calls' = calls
               /\ ~succeeds
               /\ Len(stack'[c]) < n
               /\ (n = 1 /\ ~fr.panicking) =>
                      ret'[c] = [ty |-> fr.ty, scope |-> fr.scope, out |-> Err(msg)]
               /\ fr.panicking => ret'[c].out = Panic(msg)
        /\ ~contains_key(own, fr.ty) => fr.pc \in {"check", "lookup"}
      ]_vars

(* An identity with a transient provider only was resolved by try_get,    *)
(* and try_get_singleton returned the not-registered error for it.        *)
C24_Witness ==
    \E t \in Types :
        /\ contains_key(factories, t)
        /\ ~contains_key(singletons, t)
        /\ okcnt["transient"][t] >= 1
        /\ ret[1] = [ty |-> t, scope |-> "singleton",
                     out |-> Err(<<"No ", "singleton", " factory registered for type: ", t>>)]


(* The registration of a provider of scope s for identity t. *)
RegisterIn(self, t, s, f) ==
    IF s = "transient" THEN try_factory(self, t, f) ELSE try_factory_singleton(self, t, f)

(* Two registrations chained as in di.try_factory(..)?.try_factory(..). *)
RegisterBoth(self, t1, s1, t2, s2, f) ==
    LET r == RegisterIn(self, t1, s1, f) IN
    IF r.tag = "Ok" THEN RegisterIn(r.self, t2, s2, f) ELSE r

(* C25: on every reachable container, registering providers for two       *)
(* distinct identities in either order has the same outcome: both orders  *)
(* succeed or both fail, and when they succeed they give the same         *)
(* container (the same provider maps and cache), on which every           *)
(* resolution therefore behaves alike; and a registration succeeds        *)
(* whether or not any other identity, such as one its factory resolves,   *)
(* has a provider yet.                                                    *)
C25_RegistrationOrderIrrelevant ==
    di = "live" =>
        \A t1 \in Types : \A t2 \in Types \ {t1} :
            \A s1 \in Scopes, s2 \in Scopes, f \in Closures :
                LET ab == RegisterBoth(Self, t1, s1, t2, s2, f)
                    ba == RegisterBoth(Self, t2, s2, t1, s1, f)
                    a == RegisterIn(Self, t1, s1, f)
                    own == IF s1 = "transient" THEN factories ELSE singletons
                IN
                /\ ab.tag = "Ok" <=> ba.tag = "Ok"
                /\ ab.self = ba.self
                /\ ab.tag = "Ok" =>
                       /\ contains_key(IF s1 = "transient" THEN ab.self.factories
                                       ELSE ab.self.singletons, t1)
                       /\ contains_key(IF s2 = "transient" THEN ab.self.factories
                                       ELSE ab.self.singletons, t2)
                /\ a.tag = "Ok" <=> ~contains_key(own, t1)

(* Providers of two distinct identities are registered; the factory of    *)
(* the transient one is running and the singleton it asked for has been   *)
(* built by a nested resolution.                                          *)
C25_Witness ==
    \E t \in Types : \E u \in Types \ {t} :
        /\ DOMAIN factories = {t}
        /\ DOMAIN singletons = {u}
        /\ Len(stack[1]) = 1
        /\ stack[1][1].ty = t
        /\ stack[1][1].scope = "transient"
        /\ stack[1][1].pc = "factory"
        /\ nres = 2
        /\ okcnt["singleton"][u] = 1

=============================================================================
